---- MODULE Spec2Model ----
(***************************************************************************)
(* The buffer pool of bustub: the LRU replacer (lru_replacer.cpp) and one  *)
(* buffer pool manager instance (buffer_pool_manager_instance.cpp), with   *)
(* the disk manager and the clients that hold page handles as environment; *)
(* the replacer on its own; and the parallel pool                          *)
(* (parallel_buffer_pool_manager.cpp) with the threads that call it.       *)
(***************************************************************************)
EXTENDS Integers, Sequences, FiniteSets, TLC

\* ---------------------------------------------------------------- bounds
PoolSize == 2        \* frames of the instance (pool_size)
MaxPageId == 1       \* page ids the clients use are INVALID_PAGE_ID..MaxPageId
MaxPin == 2          \* cap on a frame's pin count
MaxData == 1         \* page contents are 0..MaxData, 0 is zeroed memory
MaxInstances == 2    \* num_instances ranges over 1..MaxInstances

\* ------------------------------------------------------------- constants
INVALID_PAGE_ID == -1
nullptr == -1        \* the absent Page* / frame

Frames == 0 .. (PoolSize - 1)
PageIds == INVALID_PAGE_ID .. MaxPageId
Data == 0 .. MaxData

VARIABLES
  bpi,      \* the BufferPoolManagerInstance object
  disk,     \* the disk manager's pages: page id -> contents
  handles,  \* per frame, the Page* handles clients hold and have not unpinned
  last,     \* the last call: its name, arguments, result and disk writes
  log,      \* the calls completed so far, in order, where a run is followed
  lru,      \* an LRUReplacer object used on its own
  pool,     \* the ParallelBufferPoolManager object
  thr       \* per thread, where it is in its call on the pool and its locals

vars == <<bpi, disk, handles, last, log, lru, pool, thr>>

\* ------------------------------------------------------------ small helpers
Range(s) == {s[i] : i \in 1 .. Len(s)}

Remove(s, x) == SelectSeq(s, LAMBDA y : y # x)

\* std::unordered_map::erase(key)
Erase(pt, k) == [q \in (DOMAIN pt) \ {k} |-> pt[q]]

\* std::unordered_map::operator[](key) = f
Put(pt, k, f) == [q \in (DOMAIN pt) \cup {k} |-> IF q = k THEN f ELSE pt[q]]

\* all orders in which a set can be enumerated
RECURSIVE Perms(_)
Perms(S) ==
  IF S = {} THEN {<<>>}
  ELSE UNION {{<<x>> \o t : t \in Perms(S \ {x})} : x \in S}

\* ------------------------------------------------------------ disk manager
\* The disk holds the pages with ids 0..MaxPageId, zeroed at first. A write
\* persists the page for the reads that follow; INVALID_PAGE_ID names no page
\* of the file: a write under it stores nothing and a read of it yields zeros.
WritePage(dsk, page_id, data) ==
  IF page_id \in DOMAIN dsk THEN [dsk EXCEPT ![page_id] = data] ELSE dsk

ReadPage(dsk, page_id) == IF page_id \in DOMAIN dsk THEN dsk[page_id] ELSE 0

\* ---------------------------------------------------------------- Page
\* a Page as constructed: no page, no pin, clean, zeroed
FreshPage ==
  [page_id_ |-> INVALID_PAGE_ID, pin_count_ |-> 0, is_dirty_ |-> FALSE, data_ |-> 0]

\* ------------------------------------------------------------ LRUReplacer
\* frame_ids_: evictable frames, oldest first; frame_id_to_iter_[f]: TRUE when
\* the entry of f holds an iterator into frame_ids_, FALSE when it holds the
\* sentinel iterator
LRUReplacer(num_pages) ==
  [frame_ids_ |-> <<>>, frame_id_to_iter_ |-> [f \in 0 .. (num_pages - 1) |-> FALSE]]

IsInReplacer(r, frame_id) == r.frame_id_to_iter_[frame_id]

\* mutant: Victim that takes the most recently unpinned frame
Victim_TakesBack(r) ==
  IF r.frame_ids_ = <<>>
  THEN [ok |-> FALSE, frame_id |-> INVALID_PAGE_ID, r |-> r]
  ELSE LET f == r.frame_ids_[Len(r.frame_ids_)]
       IN [ok |-> TRUE, frame_id |-> f,
           r |-> [frame_ids_ |-> SubSeq(r.frame_ids_, 1, Len(r.frame_ids_) - 1),
                  frame_id_to_iter_ |-> [r.frame_id_to_iter_ EXCEPT ![f] = FALSE]]]

Victim(r) ==
  IF r.frame_ids_ = <<>>
  THEN [ok |-> FALSE, frame_id |-> INVALID_PAGE_ID, r |-> r]
  ELSE LET f == Head(r.frame_ids_)
       IN [ok |-> TRUE, frame_id |-> f,
           r |-> [frame_ids_ |-> Tail(r.frame_ids_),
                  frame_id_to_iter_ |-> [r.frame_id_to_iter_ EXCEPT ![f] = FALSE]]]

Pin(r, frame_id) ==
  IF ~IsInReplacer(r, frame_id) THEN r
  ELSE [frame_ids_ |-> Remove(r.frame_ids_, frame_id),
        frame_id_to_iter_ |-> [r.frame_id_to_iter_ EXCEPT ![frame_id] = FALSE]]

\* mutant: Unpin that puts the frame at the front of the order
Unpin_PushFront(r, frame_id) ==
  IF IsInReplacer(r, frame_id) THEN r
  ELSE [frame_ids_ |-> <<frame_id>> \o r.frame_ids_,
        frame_id_to_iter_ |-> [r.frame_id_to_iter_ EXCEPT ![frame_id] = TRUE]]

\* mutant: Unpin without the IsInReplacer guard
Unpin_NoGuard(r, frame_id) ==
  [frame_ids_ |-> Append(r.frame_ids_, frame_id),
   frame_id_to_iter_ |-> [r.frame_id_to_iter_ EXCEPT ![frame_id] = TRUE]]

Unpin(r, frame_id) ==
  IF IsInReplacer(r, frame_id) THEN r
  ELSE [frame_ids_ |-> Append(r.frame_ids_, frame_id),
        frame_id_to_iter_ |-> [r.frame_id_to_iter_ EXCEPT ![frame_id] = TRUE]]

Size(r) == Len(r.frame_ids_)

\* ---------------------------------------------- BufferPoolManagerInstance
\* the object after construction: every frame is in the free list
BufferPoolManagerInstance(pool_size, num_instances, instance_index) ==
  [pool_size_ |-> pool_size,
   num_instances_ |-> num_instances,
   instance_index_ |-> instance_index,
   next_page_id_ |-> instance_index,
   pages_ |-> [f \in 0 .. (pool_size - 1) |-> FreshPage],
   replacer_ |-> LRUReplacer(pool_size),
   page_table_ |-> [q \in {} |-> 0],
   free_list_ |-> [i \in 1 .. pool_size |-> i - 1]]

\* what a call hands back: the object and the disk after it, the bool result
\* (ok), the Page* result as a frame id (page), the page id written through
\* the out parameter (out) and the WritePage calls issued, in order
Result(b, dsk, ok, page, out, writes) ==
  [b |-> b, disk |-> dsk, ok |-> ok, page |-> page, out |-> out, writes |-> writes]

ValidatePageId(b, page_id) == page_id % b.num_instances_ = b.instance_index_

\* mutant: AllocatePage that steps the shard's counter by one
AllocatePage_StepsByOne(b) ==
  [page_id |-> b.next_page_id_,
   b |-> [b EXCEPT !.next_page_id_ = @ + 1]]

\* mutant: AllocatePage that hands out next_page_id_ and leaves it as it is
AllocatePage_NoAdvance(b) ==
  [page_id |-> b.next_page_id_, b |-> b]

AllocatePage(b) ==
  [page_id |-> b.next_page_id_,
   b |-> [b EXCEPT !.next_page_id_ = @ + b.num_instances_]]

\* mutant: FlushPgImp that writes a page only when its dirty bit is set
FlushPgImp_OnlyIfDirty(b, dsk, page_id) ==
  IF page_id \notin DOMAIN b.page_table_
  THEN Result(b, dsk, FALSE, nullptr, INVALID_PAGE_ID, <<>>)
  ELSE LET frame_id == b.page_table_[page_id]
           data == b.pages_[frame_id].data_
       IN IF b.pages_[frame_id].is_dirty_
          THEN Result([b EXCEPT !.pages_[frame_id].is_dirty_ = FALSE],
                      WritePage(dsk, page_id, data),
                      TRUE, nullptr, INVALID_PAGE_ID, <<<<page_id, data>>>>)
          ELSE Result(b, dsk, TRUE, nullptr, INVALID_PAGE_ID, <<>>)

FlushPgImp(b, dsk, page_id) ==
  IF page_id \notin DOMAIN b.page_table_
  THEN Result(b, dsk, FALSE, nullptr, INVALID_PAGE_ID, <<>>)
  ELSE LET frame_id == b.page_table_[page_id]
           data == b.pages_[frame_id].data_
       IN Result([b EXCEPT !.pages_[frame_id].is_dirty_ = FALSE],
                 WritePage(dsk, page_id, data),
                 TRUE, nullptr, INVALID_PAGE_ID, <<<<page_id, data>>>>)

\* the loop of FlushAllPgsImp over the page table entries, taken in `order`
RECURSIVE FlushAllLoop(_, _, _, _)
FlushAllLoop(b, dsk, order, writes) ==
  IF order = <<>>
  THEN Result(b, dsk, TRUE, nullptr, INVALID_PAGE_ID, writes)
  ELSE LET page_id == Head(order)
           frame_id == b.page_table_[page_id]
           data == b.pages_[frame_id].data_
       IN FlushAllLoop([b EXCEPT !.pages_[frame_id].is_dirty_ = FALSE],
                       WritePage(dsk, page_id, data),
                       Tail(order),
                       Append(writes, <<page_id, data>>))

FlushAllPgsImp(b, dsk, order) == FlushAllLoop(b, dsk, order, <<>>)

\* mutant: the replacer is asked first, the free list only when it has no victim
FindFrame_VictimFirst(b, dsk) ==
  LET v == Victim(b.replacer_)
  IN IF v.ok
     THEN LET page == b.pages_[v.frame_id]
              dirty == page.is_dirty_
          IN [found |-> TRUE, frame_id |-> v.frame_id,
              b |-> [b EXCEPT !.replacer_ = v.r,
                              !.page_table_ = Erase(@, page.page_id_)],
              disk |-> IF dirty THEN WritePage(dsk, page.page_id_, page.data_)
                       ELSE dsk,
              writes |-> IF dirty THEN <<<<page.page_id_, page.data_>>>>
                         ELSE <<>>]
     ELSE IF b.free_list_ # <<>>
          THEN [found |-> TRUE, frame_id |-> Head(b.free_list_),
                b |-> [b EXCEPT !.free_list_ = Tail(@)],
                disk |-> dsk, writes |-> <<>>]
          ELSE [found |-> FALSE, frame_id |-> v.frame_id, b |-> b,
                disk |-> dsk, writes |-> <<>>]

\* mutant: a victim's page is dropped without the write-back
FindFrame_NoWriteBack(b, dsk) ==
  IF b.free_list_ # <<>>
  THEN [found |-> TRUE, frame_id |-> Head(b.free_list_),
        b |-> [b EXCEPT !.free_list_ = Tail(@)],
        disk |-> dsk, writes |-> <<>>]
  ELSE LET v == Victim(b.replacer_)
       IN IF v.ok
          THEN [found |-> TRUE, frame_id |-> v.frame_id,
                b |-> [b EXCEPT !.replacer_ = v.r,
                                !.page_table_ =
                                   Erase(@, b.pages_[v.frame_id].page_id_)],
                disk |-> dsk, writes |-> <<>>]
          ELSE [found |-> FALSE, frame_id |-> v.frame_id, b |-> b,
                disk |-> dsk, writes |-> <<>>]

\* mutant: only the free list is consulted, the replacer is never asked
FindFrame_FreeListOnly(b, dsk) ==
  IF b.free_list_ # <<>>
  THEN [found |-> TRUE, frame_id |-> Head(b.free_list_),
        b |-> [b EXCEPT !.free_list_ = Tail(@)],
        disk |-> dsk, writes |-> <<>>]
  ELSE [found |-> FALSE, frame_id |-> INVALID_PAGE_ID, b |-> b,
        disk |-> dsk, writes |-> <<>>]

\* the frame NewPgImp and FetchPgImp repurpose: the front of the free list,
\* else the replacer's victim, written back when dirty and unmapped; found is
\* FALSE when there is neither
FindFrame(b, dsk) ==
  IF b.free_list_ # <<>>
  THEN [found |-> TRUE, frame_id |-> Head(b.free_list_),
        b |-> [b EXCEPT !.free_list_ = Tail(@)],
        disk |-> dsk, writes |-> <<>>]
  ELSE LET v == Victim(b.replacer_)
       IN IF v.ok
          THEN LET page == b.pages_[v.frame_id]
                   dirty == page.is_dirty_
               IN [found |-> TRUE, frame_id |-> v.frame_id,
                   b |-> [b EXCEPT !.replacer_ = v.r,
                                   !.page_table_ = Erase(@, page.page_id_)],
                   disk |-> IF dirty THEN WritePage(dsk, page.page_id_, page.data_)
                            ELSE dsk,
                   writes |-> IF dirty THEN <<<<page.page_id_, page.data_>>>>
                              ELSE <<>>]
          ELSE [found |-> FALSE, frame_id |-> v.frame_id, b |-> b,
                disk |-> dsk, writes |-> <<>>]

\* mutant: NewPgImp that calls AllocatePage before it looks for a frame
NewPgImp_AllocatesFirst(b, dsk) ==
  LET a == AllocatePage(b)
      v == FindFrame(a.b, dsk)
  IN IF ~v.found
     THEN Result(a.b, dsk, FALSE, nullptr, INVALID_PAGE_ID, <<>>)
     ELSE LET page == [page_id_ |-> a.page_id, is_dirty_ |-> FALSE,
                       pin_count_ |-> 1, data_ |-> 0]
          IN Result([v.b EXCEPT !.pages_[v.frame_id] = page,
                                !.page_table_ = Put(@, a.page_id, v.frame_id)],
                    v.disk, TRUE, v.frame_id, a.page_id, v.writes)

NewPgImp(b, dsk) ==
  LET v == FindFrame(b, dsk)
  IN IF ~v.found
     THEN Result(b, dsk, FALSE, nullptr, INVALID_PAGE_ID, <<>>)
     ELSE LET a == AllocatePage(v.b)
              page == [page_id_ |-> a.page_id, is_dirty_ |-> FALSE,
                       pin_count_ |-> 1, data_ |-> 0]
          IN Result([a.b EXCEPT !.pages_[v.frame_id] = page,
                                !.page_table_ = Put(@, a.page_id, v.frame_id)],
                    v.disk, TRUE, v.frame_id, a.page_id, v.writes)

\* mutant: FetchPgImp that binds the frame without reading the page from disk
FetchPgImp_NoRead(b, dsk, page_id) ==
  IF page_id \in DOMAIN b.page_table_
  THEN LET frame_id == b.page_table_[page_id]
       IN Result([b EXCEPT !.pages_[frame_id].pin_count_ = @ + 1,
                           !.replacer_ = Pin(@, frame_id)],
                 dsk, TRUE, frame_id, INVALID_PAGE_ID, <<>>)
  ELSE LET v == FindFrame(b, dsk)
       IN IF ~v.found
          THEN Result(b, dsk, FALSE, nullptr, INVALID_PAGE_ID, <<>>)
          ELSE LET page == [page_id_ |-> page_id, pin_count_ |-> 1,
                            is_dirty_ |-> FALSE,
                            data_ |-> v.b.pages_[v.frame_id].data_]
               IN Result([v.b EXCEPT !.pages_[v.frame_id] = page,
                                     !.page_table_ = Put(@, page_id, v.frame_id),
                                     !.replacer_ = Pin(@, v.frame_id)],
                         v.disk, TRUE, v.frame_id, INVALID_PAGE_ID, v.writes)

FetchPgImp(b, dsk, page_id) ==
  IF page_id \in DOMAIN b.page_table_
  THEN LET frame_id == b.page_table_[page_id]
       IN Result([b EXCEPT !.pages_[frame_id].pin_count_ = @ + 1,
                           !.replacer_ = Pin(@, frame_id)],
                 dsk, TRUE, frame_id, INVALID_PAGE_ID, <<>>)
  ELSE LET v == FindFrame(b, dsk)
       IN IF ~v.found
          THEN Result(b, dsk, FALSE, nullptr, INVALID_PAGE_ID, <<>>)
          ELSE LET page == [page_id_ |-> page_id, pin_count_ |-> 1,
                            is_dirty_ |-> FALSE,
                            data_ |-> ReadPage(v.disk, page_id)]
               IN Result([v.b EXCEPT !.pages_[v.frame_id] = page,
                                     !.page_table_ = Put(@, page_id, v.frame_id),
                                     !.replacer_ = Pin(@, v.frame_id)],
                         v.disk, TRUE, v.frame_id, INVALID_PAGE_ID, v.writes)

\* mutant: DeletePgImp that leaves the frame in the replacer
DeletePgImp_KeepsInReplacer(b, dsk, page_id) ==
  IF page_id \notin DOMAIN b.page_table_
  THEN Result(b, dsk, TRUE, nullptr, INVALID_PAGE_ID, <<>>)
  ELSE LET frame_id == b.page_table_[page_id]
           page == b.pages_[frame_id]
       IN IF page.pin_count_ # 0
          THEN Result(b, dsk, FALSE, nullptr, INVALID_PAGE_ID, <<>>)
          ELSE Result([b EXCEPT !.page_table_ = Erase(@, page_id),
                                !.pages_[frame_id] =
                                   [page_id_ |-> INVALID_PAGE_ID, pin_count_ |-> 0,
                                    is_dirty_ |-> FALSE, data_ |-> 0],
                                !.free_list_ = Append(@, frame_id)],
                      IF page.is_dirty_
                      THEN WritePage(dsk, page.page_id_, page.data_) ELSE dsk,
                      TRUE, nullptr, INVALID_PAGE_ID,
                      IF page.is_dirty_
                      THEN <<<<page.page_id_, page.data_>>>> ELSE <<>>)

\* mutant: DeletePgImp that frees the frame whatever its pin count
DeletePgImp_IgnoresPin(b, dsk, page_id) ==
  IF page_id \notin DOMAIN b.page_table_
  THEN Result(b, dsk, TRUE, nullptr, INVALID_PAGE_ID, <<>>)
  ELSE LET frame_id == b.page_table_[page_id]
           page == b.pages_[frame_id]
       IN Result([b EXCEPT !.replacer_ = Pin(@, frame_id),
                           !.page_table_ = Erase(@, page_id),
                           !.pages_[frame_id] =
                              [page_id_ |-> INVALID_PAGE_ID, pin_count_ |-> 0,
                               is_dirty_ |-> FALSE, data_ |-> 0],
                           !.free_list_ = Append(@, frame_id)],
                 IF page.is_dirty_
                 THEN WritePage(dsk, page.page_id_, page.data_) ELSE dsk,
                 TRUE, nullptr, INVALID_PAGE_ID,
                 IF page.is_dirty_
                 THEN <<<<page.page_id_, page.data_>>>> ELSE <<>>)

\* DeallocatePage is a no-op
DeletePgImp(b, dsk, page_id) ==
  IF page_id \notin DOMAIN b.page_table_
  THEN Result(b, dsk, TRUE, nullptr, INVALID_PAGE_ID, <<>>)
  ELSE LET frame_id == b.page_table_[page_id]
           page == b.pages_[frame_id]
       IN IF page.pin_count_ # 0
          THEN Result(b, dsk, FALSE, nullptr, INVALID_PAGE_ID, <<>>)
          ELSE Result([b EXCEPT !.replacer_ = Pin(@, frame_id),
                                !.page_table_ = Erase(@, page_id),
                                !.pages_[frame_id] =
                                   [page_id_ |-> INVALID_PAGE_ID, pin_count_ |-> 0,
                                    is_dirty_ |-> FALSE, data_ |-> 0],
                                !.free_list_ = Append(@, frame_id)],
                      IF page.is_dirty_
                      THEN WritePage(dsk, page.page_id_, page.data_) ELSE dsk,
                      TRUE, nullptr, INVALID_PAGE_ID,
                      IF page.is_dirty_
                      THEN <<<<page.page_id_, page.data_>>>> ELSE <<>>)

\* mutant: UnpinPgImp without the pin count guard
UnpinPgImp_NoPinCheck(b, dsk, page_id, is_dirty) ==
  IF page_id \notin DOMAIN b.page_table_
  THEN Result(b, dsk, FALSE, nullptr, INVALID_PAGE_ID, <<>>)
  ELSE LET frame_id == b.page_table_[page_id]
           page == b.pages_[frame_id]
           unpinned == [page EXCEPT !.is_dirty_ = (@ \/ is_dirty),
                                    !.pin_count_ = @ - 1]
       IN Result([b EXCEPT !.pages_[frame_id] = unpinned,
                           !.replacer_ = IF unpinned.pin_count_ <= 0
                                         THEN Unpin(@, frame_id) ELSE @],
                 dsk, TRUE, nullptr, INVALID_PAGE_ID, <<>>)

\* mutant: UnpinPgImp that assigns the dirty hint to the dirty bit
UnpinPgImp_AssignsDirty(b, dsk, page_id, is_dirty) ==
  IF page_id \notin DOMAIN b.page_table_
  THEN Result(b, dsk, FALSE, nullptr, INVALID_PAGE_ID, <<>>)
  ELSE LET frame_id == b.page_table_[page_id]
           page == b.pages_[frame_id]
       IN IF page.pin_count_ <= 0
          THEN Result(b, dsk, FALSE, nullptr, INVALID_PAGE_ID, <<>>)
          ELSE LET unpinned == [page EXCEPT !.is_dirty_ = is_dirty,
                                            !.pin_count_ = @ - 1]
               IN Result([b EXCEPT !.pages_[frame_id] = unpinned,
                                   !.replacer_ = IF unpinned.pin_count_ <= 0
                                                 THEN Unpin(@, frame_id) ELSE @],
                         dsk, TRUE, nullptr, INVALID_PAGE_ID, <<>>)

\* mutant: UnpinPgImp that never hands the frame to the replacer
UnpinPgImp_KeepsOutOfReplacer(b, dsk, page_id, is_dirty) ==
  IF page_id \notin DOMAIN b.page_table_
  THEN Result(b, dsk, FALSE, nullptr, INVALID_PAGE_ID, <<>>)
  ELSE LET frame_id == b.page_table_[page_id]
           page == b.pages_[frame_id]
       IN IF page.pin_count_ <= 0
          THEN Result(b, dsk, FALSE, nullptr, INVALID_PAGE_ID, <<>>)
          ELSE LET unpinned == [page EXCEPT !.is_dirty_ = (@ \/ is_dirty),
                                            !.pin_count_ = @ - 1]
               IN Result([b EXCEPT !.pages_[frame_id] = unpinned],
                         dsk, TRUE, nullptr, INVALID_PAGE_ID, <<>>)

UnpinPgImp(b, dsk, page_id, is_dirty) ==
  IF page_id \notin DOMAIN b.page_table_
  THEN Result(b, dsk, FALSE, nullptr, INVALID_PAGE_ID, <<>>)
  ELSE LET frame_id == b.page_table_[page_id]
           page == b.pages_[frame_id]
       IN IF page.pin_count_ <= 0
          THEN Result(b, dsk, FALSE, nullptr, INVALID_PAGE_ID, <<>>)
          ELSE LET unpinned == [page EXCEPT !.is_dirty_ = (@ \/ is_dirty),
                                            !.pin_count_ = @ - 1]
               IN Result([b EXCEPT !.pages_[frame_id] = unpinned,
                                   !.replacer_ = IF unpinned.pin_count_ <= 0
                                                 THEN Unpin(@, frame_id) ELSE @],
                         dsk, TRUE, nullptr, INVALID_PAGE_ID, <<>>)

\* ------------------------------------------------------------------ calls
NoCall ==
  [name |-> "init", page_id |-> INVALID_PAGE_ID, is_dirty |-> FALSE, ok |-> TRUE,
   page |-> nullptr, out |-> INVALID_PAGE_ID, writes |-> <<>>]

\* the instance and the disk take the call's result, `last` records the call
Call(name, page_id, is_dirty, r) ==
  /\ bpi' = r.b
  /\ disk' = r.disk
  /\ last' = [name |-> name, page_id |-> page_id, is_dirty |-> is_dirty,
              ok |-> r.ok, page |-> r.page, out |-> r.out, writes |-> r.writes]
  /\ UNCHANGED <<log, lru, pool, thr>>

\* the objects a specification does not construct
NoLog == log = <<>>
NoReplacer == lru = LRUReplacer(0)
NoPool == pool = [m_instances |-> <<>>, m_start_index |-> 0, m_latch |-> 0] /\ thr = <<>>

\* an instance on its own: BufferPoolManagerInstance(pool_size, disk_manager)
\* delegates to the sharded constructor with num_instances 1 and index 0
Init ==
  /\ bpi = BufferPoolManagerInstance(PoolSize, 1, 0)
  /\ disk = [p \in 0 .. MaxPageId |-> 0]
  /\ handles = [f \in Frames |-> 0]
  /\ last = NoCall
  /\ NoLog /\ NoReplacer /\ NoPool

\* an instance built as shard k of n
InitShard ==
  /\ \E n \in 1 .. MaxInstances : \E k \in 0 .. (n - 1) :
       bpi = BufferPoolManagerInstance(PoolSize, n, k)
  /\ disk = [p \in 0 .. MaxPageId |-> 0]
  /\ handles = [f \in Frames |-> 0]
  /\ last = NoCall
  /\ NoLog /\ NoReplacer /\ NoPool

\* NewPage(&page_id); the caller holds the returned Page*
NewPage ==
  LET r == NewPgImp(bpi, disk)
     IN /\ r.page # nullptr => r.out <= MaxPageId
        /\ Call("NewPage", INVALID_PAGE_ID, FALSE, r)
        /\ handles' = IF r.page # nullptr
                      THEN [handles EXCEPT ![r.page] = 1] ELSE handles

\* FetchPage(page_id) with any page id; the caller holds the returned Page*
FetchPage ==
  \E page_id \in PageIds :
    /\ page_id \in DOMAIN bpi.page_table_ =>
         /\ bpi.pages_[bpi.page_table_[page_id]].pin_count_ < MaxPin
         /\ handles[bpi.page_table_[page_id]] < MaxPin
    /\ LET r == FetchPgImp(bpi, disk, page_id)
       IN /\ Call("FetchPage", page_id, FALSE, r)
          /\ handles' = IF r.page = nullptr THEN handles
                        ELSE IF page_id \in DOMAIN bpi.page_table_
                             THEN [handles EXCEPT ![r.page] = @ + 1]
                             ELSE [handles EXCEPT ![r.page] = 1]

\* UnpinPage(page_id, is_dirty) with any arguments. A client that holds a
\* Page* of page_id gives it up with the call (holder); a call is made by a
\* client that holds none only when nobody holds one
UnpinPage ==
  \E page_id \in PageIds, is_dirty \in BOOLEAN, holder \in Frames \cup {nullptr} :
    /\ IF holder = nullptr
       THEN \A f \in Frames : ~(handles[f] > 0 /\ bpi.pages_[f].page_id_ = page_id)
       ELSE handles[holder] > 0 /\ bpi.pages_[holder].page_id_ = page_id
    /\ Call("UnpinPage", page_id, is_dirty, UnpinPgImp(bpi, disk, page_id, is_dirty))
    /\ handles' = IF holder = nullptr THEN handles
                  ELSE [handles EXCEPT ![holder] = @ - 1]

FlushPage ==
  \E page_id \in PageIds :
    /\ Call("FlushPage", page_id, FALSE, FlushPgImp(bpi, disk, page_id))
    /\ UNCHANGED handles

\* the iteration order of the page table is unspecified
FlushAllPages ==
  \E order \in Perms(DOMAIN bpi.page_table_) :
    /\ Call("FlushAllPages", INVALID_PAGE_ID, FALSE, FlushAllPgsImp(bpi, disk, order))
    /\ UNCHANGED handles

DeletePage ==
  \E page_id \in PageIds :
    LET r == DeletePgImp(bpi, disk, page_id)
    IN /\ Call("DeletePage", page_id, FALSE, r)
       /\ handles' = IF r.ok /\ page_id \in DOMAIN bpi.page_table_
                     THEN [handles EXCEPT ![bpi.page_table_[page_id]] = 0]
                     ELSE handles

\* a client that holds a Page* writes the page's bytes through GetData()
WriteData ==
  \E f \in Frames, d \in Data :
    /\ handles[f] > 0
    /\ bpi.pages_[f].data_ # d
    /\ bpi' = [bpi EXCEPT !.pages_[f].data_ = d]
    /\ last' = [NoCall EXCEPT !.name = "WriteData", !.page = f]
    /\ UNCHANGED <<disk, handles, log, lru, pool, thr>>

Next ==
  \/ NewPage
  \/ FetchPage
  \/ UnpinPage
  \/ FlushPage
  \/ FlushAllPages
  \/ DeletePage
  \/ WriteData

Spec == Init /\ [][Next]_vars

\* the calls alone, on a shard whose clients leave the page bytes as read
NextShard ==
  \/ NewPage
  \/ FetchPage
  \/ UnpinPage
  \/ FlushPage
  \/ FlushAllPages
  \/ DeletePage

SpecShard == InitShard /\ [][NextShard]_vars

\* ------------------------------------------------------- state, by name
page_table_ == bpi.page_table_
pages_ == bpi.pages_
free_list_ == bpi.free_list_
frame_ids_ == bpi.replacer_.frame_ids_

Resident(page_id) == page_id \in DOMAIN page_table_

\* no free frame and no evictable frame
Exhausted == free_list_ = <<>> /\ frame_ids_ = <<>>

\* ------------------------------------------------------------------ C1
\* C1: the page table and the frame array agree: for every resident page p
\* (other than INVALID_PAGE_ID, which marks a free frame) and every frame f,
\* page_table_[p] = f exactly when pages_[f].page_id_ = p.
C1_Bijection ==
  \A p \in (DOMAIN page_table_) \ {INVALID_PAGE_ID} : \A f \in Frames :
    (page_table_[p] = f) <=> (pages_[f].page_id_ = p)

\* ------------------------------------------------------------------ C2
\* C2: every frame is in exactly one of the free list, the replacer's order
\* and the frames with a positive pin count, and occurs once in its list.
InFree(f) == f \in Range(free_list_)
InReplacer(f) == f \in Range(frame_ids_)
IsPinned(f) == pages_[f].pin_count_ > 0

C2_Partition ==
  /\ \A f \in Frames :
       /\ InFree(f) \/ InReplacer(f) \/ IsPinned(f)
       /\ ~(InFree(f) /\ InReplacer(f))
       /\ IsPinned(f) => ~InReplacer(f) /\ ~InFree(f)
  /\ Len(free_list_) = Cardinality(Range(free_list_))
  /\ Len(frame_ids_) = Cardinality(Range(frame_ids_))

\* a page was deleted with another frame pinned: free, evictable or pinned
\* frames exist side by side after calls that moved frames between the sets
C2_Witness ==
  /\ last.name = "DeletePage" /\ last.ok
  /\ \E f, g \in Frames : InFree(f) /\ pages_[f].pin_count_ = 0 /\ IsPinned(g)
  /\ Len(free_list_) = 1

\* ------------------------------------------------------------------ C3
\* C3: while a client holds a Page* it has not unpinned, no call rebinds or
\* frees the frame: it keeps its page id, and its bytes change only when a
\* holder writes them.
C3_HeldFrameKept ==
  [][\A f \in Frames :
       handles[f] > 0 =>
         /\ bpi'.pages_[f].page_id_ = pages_[f].page_id_
         /\ last'.name # "WriteData" => bpi'.pages_[f].data_ = pages_[f].data_]_vars

\* ------------------------------------------------------------------ C4
\* C4: when a dirty frame loses its page or its dirty bit, the call has
\* issued WritePage(q, data) for the page q and the bytes the frame held.
C4_DirtyWrittenBack ==
  [][\A f \in Frames :
       (/\ pages_[f].is_dirty_
        /\ \/ bpi'.pages_[f].page_id_ # pages_[f].page_id_
           \/ ~bpi'.pages_[f].is_dirty_)
       => <<pages_[f].page_id_, pages_[f].data_>> \in Range(last'.writes)]_vars

\* NewPage evicted a dirty page whose bytes a client had written
C4_Witness ==
  /\ last.name = "NewPage" /\ last.page # nullptr
  /\ \E i \in 1 .. Len(last.writes) :
       /\ last.writes[i][1] \notin DOMAIN page_table_
       /\ last.writes[i][2] # 0

\* ------------------------------------------------------------------ C5
\* C5: on shard k of N, next_page_id_ starts at k, stays congruent to k
\* modulo N, moves only by N, and every id NewPage returns is congruent to k.
C5_ShardArithmetic ==
  /\ bpi.next_page_id_ = bpi.instance_index_
  /\ [](/\ ValidatePageId(bpi, bpi.next_page_id_)
        /\ (last.name = "NewPage" /\ last.page # nullptr)
             => /\ ValidatePageId(bpi, last.out)
                /\ pages_[last.page].page_id_ = last.out)
  /\ [][/\ bpi'.next_page_id_ \in
             {bpi.next_page_id_, bpi.next_page_id_ + bpi.num_instances_}
        /\ (last'.name = "NewPage" /\ last'.page # nullptr)
             => /\ last'.out = bpi.next_page_id_
                /\ bpi'.next_page_id_ = bpi.next_page_id_ + bpi.num_instances_]_vars

\* shard 1 of 2 returned a page id
C5_Witness ==
  /\ last.name = "NewPage" /\ last.page # nullptr
  /\ bpi.num_instances_ = 2 /\ bpi.instance_index_ = 1
  /\ last.out = 1

\* ------------------------------------------------------------------ C6
\* C6: NewPage, and FetchPage of a page that is not resident, return nullptr
\* exactly when the free list and the replacer are empty, which is when every
\* frame is pinned; FetchPage of a resident page never returns nullptr.
C6_NullIffExhausted ==
  /\ Exhausted <=> \A f \in Frames : IsPinned(f)
  /\ (NewPgImp(bpi, disk).page = nullptr) <=> Exhausted
  /\ \A p \in PageIds :
       IF Resident(p)
       THEN FetchPgImp(bpi, disk, p).page # nullptr
       ELSE (FetchPgImp(bpi, disk, p).page = nullptr) <=> Exhausted

\* a FetchPage of a page that is not resident came back nullptr
C6_Witness ==
  /\ last.name = "FetchPage" /\ last.page = nullptr
  /\ ~Resident(last.page_id)
  /\ \A f \in Frames : IsPinned(f)

\* ------------------------------------------------------------------ C7
\* C7: UnpinPage of a page that is not resident, or whose pin count is 0,
\* returns false and changes nothing, whatever the dirty hint; no pin count
\* is ever negative.
C7_FailedUnpinNoEffect ==
  /\ \A f \in Frames : pages_[f].pin_count_ >= 0
  /\ \A p \in PageIds, d \in BOOLEAN :
       (~Resident(p) \/ pages_[page_table_[p]].pin_count_ = 0) =>
         LET r == UnpinPgImp(bpi, disk, p, d)
         IN ~r.ok /\ r.b = bpi /\ r.disk = disk /\ r.writes = <<>>

\* UnpinPage(p, true) failed on a resident, clean page with pin count 0
C7_Witness ==
  /\ last.name = "UnpinPage" /\ ~last.ok /\ last.is_dirty
  /\ Resident(last.page_id)
  /\ pages_[page_table_[last.page_id]].pin_count_ = 0
  /\ ~pages_[page_table_[last.page_id]].is_dirty_

\* ------------------------------------------------------------------ C8
\* C8: UnpinPage never clears a dirty bit and sets it when the hint is true;
\* FetchPage of a resident page leaves the dirty bits alone; a dirty bit is
\* cleared only by FlushPage, FlushAllPages, DeletePage, or by the NewPage or
\* FetchPage that takes the frame as its victim and writes the page back.
C8_DirtyIsMonotone ==
  [][/\ last'.name = "UnpinPage" =>
          /\ \A f \in Frames : pages_[f].is_dirty_ => bpi'.pages_[f].is_dirty_
          /\ (last'.ok /\ last'.is_dirty) =>
               bpi'.pages_[page_table_[last'.page_id]].is_dirty_
     /\ (last'.name = "FetchPage" /\ Resident(last'.page_id)) =>
          \A f \in Frames : bpi'.pages_[f].is_dirty_ = pages_[f].is_dirty_
     /\ \A f \in Frames :
          (pages_[f].is_dirty_ /\ ~bpi'.pages_[f].is_dirty_) =>
             \/ last'.name \in {"FlushPage", "FlushAllPages", "DeletePage"}
             \/ /\ last'.name \in {"NewPage", "FetchPage"}
                /\ last'.page = f
                /\ <<pages_[f].page_id_, pages_[f].data_>> \in Range(last'.writes)]_vars

\* UnpinPage(p, false) succeeded on a dirty page and the page is still dirty
C8_Witness ==
  /\ last.name = "UnpinPage" /\ last.ok /\ ~last.is_dirty
  /\ Resident(last.page_id)
  /\ pages_[page_table_[last.page_id]].is_dirty_

\* ------------------------------------------------------------------ C9
\* C9: DeletePage of a resident page with a nonzero pin count returns false,
\* changes nothing and writes nothing; with pin count 0 it returns true and
\* leaves the frame free (INVALID_PAGE_ID, pin count 0, clean, zeroed), out
\* of the replacer and the page table, and at the back of the free list.
C9_DeleteResident ==
  \A p \in DOMAIN page_table_ :
    LET f == page_table_[p]
        r == DeletePgImp(bpi, disk, p)
    IN IF pages_[f].pin_count_ # 0
       THEN ~r.ok /\ r.b = bpi /\ r.disk = disk /\ r.writes = <<>>
       ELSE /\ r.ok
            /\ r.b.pages_[f].page_id_ = INVALID_PAGE_ID
            /\ r.b.pages_[f].pin_count_ = 0
            /\ ~r.b.pages_[f].is_dirty_
            /\ r.b.pages_[f].data_ = 0
            /\ f \notin Range(r.b.replacer_.frame_ids_)
            /\ ~IsInReplacer(r.b.replacer_, f)
            /\ p \notin DOMAIN r.b.page_table_
            /\ r.b.free_list_ = Append(free_list_, f)

\* DeletePage refused a page that a client holds pinned with written bytes
C9_Witness ==
  /\ last.name = "DeletePage" /\ ~last.ok
  /\ Resident(last.page_id)
  /\ pages_[page_table_[last.page_id]].pin_count_ > 0
  /\ pages_[page_table_[last.page_id]].data_ # 0

\* ----------------------------------------------------------------- C10
\* C10: INVALID_PAGE_ID is never a key of the page table, and
\* FlushPage(INVALID_PAGE_ID) returns false and writes nothing.
C10_InvalidNeverResident ==
  /\ INVALID_PAGE_ID \notin DOMAIN page_table_
  /\ LET r == FlushPgImp(bpi, disk, INVALID_PAGE_ID)
     IN ~r.ok /\ r.writes = <<>>

\* ----------------------------------------------------------------- C19
\* C19: FlushPage(p) on a resident page, whatever its pin count, issues
\* exactly one WritePage(p, the frame's bytes), clears the dirty bit and
\* returns true; the pin count, the bytes, the other frames, the page table,
\* the free list and the replacer's contents and order are as before. On a
\* page that is not resident it returns false, writes nothing and changes
\* nothing.
C19_FlushFrame ==
  \A p \in PageIds :
    LET r == FlushPgImp(bpi, disk, p)
    IN IF Resident(p)
       THEN LET f == page_table_[p]
            IN /\ r.ok
               /\ r.writes = <<<<p, pages_[f].data_>>>>
               /\ r.disk = WritePage(disk, p, pages_[f].data_)
               /\ ~r.b.pages_[f].is_dirty_
               /\ r.b.pages_[f].pin_count_ = pages_[f].pin_count_
               /\ r.b.pages_[f].data_ = pages_[f].data_
               /\ r.b.pages_[f].page_id_ = p
               /\ \A g \in Frames \ {f} : r.b.pages_[g] = pages_[g]
               /\ r.b.page_table_ = page_table_
               /\ r.b.free_list_ = free_list_
               /\ r.b.replacer_ = bpi.replacer_
               /\ r.b.next_page_id_ = bpi.next_page_id_
       ELSE ~r.ok /\ r.writes = <<>> /\ r.b = bpi /\ r.disk = disk

\* FlushPage wrote to disk the bytes of a page that a client holds pinned
C19_Witness ==
  /\ last.name = "FlushPage" /\ last.ok
  /\ last.page_id \in DOMAIN disk
  /\ Resident(last.page_id)
  /\ pages_[page_table_[last.page_id]].pin_count_ > 0
  /\ last.writes = <<<<last.page_id, pages_[page_table_[last.page_id]].data_>>>>
  /\ pages_[page_table_[last.page_id]].data_ # 0
  /\ disk[last.page_id] = pages_[page_table_[last.page_id]].data_

Keep(s, S) == SelectSeq(s, LAMBDA x : x \in S)

C14_EvictsLeastRecentlyUnpinned ==
  [][LET old == bpi.replacer_.frame_ids_
         new == bpi'.replacer_.frame_ids_
     IN /\ ( /\ last'.name \in {"NewPage", "FetchPage"}
             /\ last'.page # nullptr
             /\ last'.name = "FetchPage" => ~Resident(last'.page_id)
             /\ bpi.free_list_ = <<>> )
           => /\ old # <<>>
              /\ last'.page = Head(old)
              /\ new = Tail(old)
        /\ \A f \in Frames :
             (bpi.pages_[f].pin_count_ > 0 /\ bpi'.pages_[f].pin_count_ = 0
              /\ last'.name = "UnpinPage")
             => new = Append(old, f)
        /\ \A f \in Range(new) \ Range(old) :
             /\ last'.name = "UnpinPage"
             /\ bpi.pages_[f].pin_count_ = 1 /\ bpi'.pages_[f].pin_count_ = 0
        /\ Keep(new, Range(old)) = Keep(old, Range(new))
        /\ (last'.name = "FetchPage" /\ last'.page # nullptr)
           => last'.page \notin Range(new)]_vars

\* NewPage evicted a dirty page while another frame was evictable too
C14_Witness ==
  /\ last.name = "NewPage" /\ last.page # nullptr
  /\ last.writes # <<>>
  /\ frame_ids_ # <<>>
  /\ free_list_ = <<>>

\* ------------------------------------------------- the replacer on its own
\* the number of frames the standalone replacer is constructed for
ReplacerPages == PoolSize + 2
ReplacerFrames == 0 .. (ReplacerPages - 1)

\* no instance is constructed
NoInstance ==
  /\ bpi = BufferPoolManagerInstance(0, 1, 0)
  /\ disk = [p \in {} |-> 0]
  /\ handles = [f \in {} |-> 0]

InitReplacer ==
  /\ lru = LRUReplacer(ReplacerPages)
  /\ last = NoCall
  /\ NoInstance /\ NoLog /\ NoPool

\* `last` records a replacer call: ok is Victim's result, page the frame id
\* passed to Pin and Unpin or written by Victim, out the result of Size
CallVictim ==
  LET v == Victim(lru)
  IN /\ lru' = v.r
     /\ last' = [NoCall EXCEPT !.name = "Victim", !.ok = v.ok, !.page = v.frame_id]
     /\ UNCHANGED <<bpi, disk, handles, log, pool, thr>>

CallPin ==
  \E f \in ReplacerFrames :
    /\ lru' = Pin(lru, f)
    /\ last' = [NoCall EXCEPT !.name = "Pin", !.page = f]
    /\ UNCHANGED <<bpi, disk, handles, log, pool, thr>>

CallUnpin ==
  \E f \in ReplacerFrames :
    /\ lru' = Unpin(lru, f)
    /\ last' = [NoCall EXCEPT !.name = "Unpin", !.page = f]
    /\ UNCHANGED <<bpi, disk, handles, log, pool, thr>>

CallSize ==
  /\ last' = [NoCall EXCEPT !.name = "Size", !.out = Size(lru)]
  /\ UNCHANGED <<lru, bpi, disk, handles, log, pool, thr>>

NextReplacer ==
  \/ CallVictim
  \/ CallPin
  \/ CallUnpin
  \/ CallSize

SpecReplacer == InitReplacer /\ [][NextReplacer]_vars

\* the replacer after Unpin of the frames of fs, in order
RECURSIVE UnpinAll(_, _)
UnpinAll(r, fs) ==
  IF fs = <<>> THEN r ELSE UnpinAll(Unpin(r, Head(fs)), Tail(fs))

\* successive Victim calls until one returns false: the frames they returned
\* and the replacer they leave
RECURSIVE Drain(_)
Drain(r) ==
  LET v == Victim(r)
  IN IF ~v.ok THEN [frames |-> <<>>, r |-> v.r]
     ELSE LET d == Drain(v.r)
          IN [frames |-> <<v.frame_id>> \o d.frames, r |-> d.r]

\* the sequences of distinct elements of S
DistinctSeqs(S) == UNION {Perms(T) : T \in SUBSET S}

\* ----------------------------------------------------------------- C13
\* C13: when distinct frames f1..fm, none of them evictable at the time, are
\* passed to Unpin in that order with no Pin in between, successive Victim
\* calls return the frames that were evictable before, oldest first, then
\* f1, f2, ..., fm in exactly that order; the Victim call after the last one
\* returns false. From the empty replacer the victims are exactly f1..fm.
C13_VictimsInUnpinOrder ==
  \A fs \in DistinctSeqs(ReplacerFrames \ Range(lru.frame_ids_)) :
    LET d == Drain(UnpinAll(lru, fs))
    IN /\ d.frames = lru.frame_ids_ \o fs
       /\ d.r.frame_ids_ = <<>>
       /\ ~Victim(d.r).ok
       /\ Victim(d.r).r = d.r

\* Victim returned a frame and left two more in the order
C13_Witness ==
  /\ last.name = "Victim" /\ last.ok
  /\ last.page \in ReplacerFrames
  /\ Len(lru.frame_ids_) >= 2
  /\ last.page \notin Range(lru.frame_ids_)

\* ----------------------------------------------------------------- C15
\* C15: for every replacer state and frame f, Unpin(f); Unpin(f) leaves the
\* replacer as Unpin(f) does and Pin(f); Pin(f) as Pin(f) does; Pin of a
\* frame that is not in the order and Unpin of a frame that is in it change
\* nothing, so a frame already evictable keeps its place.
C15_ReplacerIdempotent ==
  \A f \in ReplacerFrames :
    /\ Unpin(Unpin(lru, f), f) = Unpin(lru, f)
    /\ Pin(Pin(lru, f), f) = Pin(lru, f)
    /\ f \notin Range(lru.frame_ids_) => Pin(lru, f) = lru
    /\ f \in Range(lru.frame_ids_) => Unpin(lru, f) = lru
    /\ Len(Keep(Unpin(lru, f).frame_ids_, {f})) = 1
    /\ f \notin Range(Pin(lru, f).frame_ids_)

\* Unpin was called on a frame that was evictable already: it is in the
\* order, and not at the back, where a first Unpin would have put it
C15_Witness ==
  /\ last.name = "Unpin"
  /\ last.page \in Range(lru.frame_ids_)
  /\ lru.frame_ids_[Len(lru.frame_ids_)] # last.page

\* ------------------------------------------------- fill and evict (C11)
\* one client of an instance of FillPoolSize frames: it calls NewPage
\* FillPoolSize + 1 times, unpins the first page clean, calls NewPage again
\* and fetches the first page; while it holds a page it may write its bytes
FillPoolSize == PoolSize + 1
FillFrames == 0 .. (FillPoolSize - 1)

InitFill ==
  /\ bpi = BufferPoolManagerInstance(FillPoolSize, 1, 0)
  /\ disk = [p \in 0 .. FillPoolSize |-> 0]
  /\ handles = [f \in FillFrames |-> 0]
  /\ last = NoCall
  /\ NoLog /\ NoReplacer /\ NoPool

\* as Call, and the call is appended to the log
Logged(name, page_id, is_dirty, r) ==
  LET c == [name |-> name, page_id |-> page_id, is_dirty |-> is_dirty,
            ok |-> r.ok, page |-> r.page, out |-> r.out, writes |-> r.writes]
  IN /\ bpi' = r.b
     /\ disk' = r.disk
     /\ last' = c
     /\ log' = Append(log, c)
     /\ UNCHANGED <<lru, pool, thr>>

FillNewPage ==
  /\ Len(log) + 1 \in (1 .. (FillPoolSize + 1)) \cup {FillPoolSize + 3}
  /\ LET r == NewPgImp(bpi, disk)
     IN /\ Logged("NewPage", INVALID_PAGE_ID, FALSE, r)
        /\ handles' = IF r.page # nullptr
                      THEN [handles EXCEPT ![r.page] = 1] ELSE handles

FillUnpinPage ==
  /\ Len(log) + 1 = FillPoolSize + 2
  /\ LET page_id == log[1].out
         r == UnpinPgImp(bpi, disk, page_id, FALSE)
     IN /\ Logged("UnpinPage", page_id, FALSE, r)
        /\ handles' = IF r.ok
                      THEN [handles EXCEPT ![bpi.page_table_[page_id]] = @ - 1]
                      ELSE handles

FillFetchPage ==
  /\ Len(log) + 1 = FillPoolSize + 4
  /\ LET page_id == log[1].out
         r == FetchPgImp(bpi, disk, page_id)
     IN /\ Logged("FetchPage", page_id, FALSE, r)
        /\ handles' = IF r.page # nullptr
                      THEN [handles EXCEPT ![r.page] =
                              IF page_id \in DOMAIN bpi.page_table_
                              THEN @ + 1 ELSE 1]
                      ELSE handles

FillWriteData ==
  \E f \in FillFrames, d \in Data :
    /\ handles[f] > 0
    /\ bpi.pages_[f].data_ # d
    /\ bpi' = [bpi EXCEPT !.pages_[f].data_ = d]
    /\ last' = [NoCall EXCEPT !.name = "WriteData", !.page = f]
    /\ UNCHANGED <<disk, handles, log, lru, pool, thr>>

NextFill ==
  \/ FillNewPage
  \/ FillUnpinPage
  \/ FillFetchPage
  \/ FillWriteData

SpecFill == InitFill /\ [][NextFill]_vars

\* ----------------------------------------------------------------- C11
\* the part of the scenario up to the NewPage that follows the unpin: the
\* first FillPoolSize NewPage calls return distinct page ids, after which
\* every frame is pinned; the next NewPage returns nullptr; UnpinPage of the
\* first page succeeds; the NewPage after it returns a new page id, in the
\* frame the first page had
FillUpToRefill ==
  /\ \A i \in 1 .. FillPoolSize :
       i <= Len(log) =>
         /\ log[i].name = "NewPage" /\ log[i].page # nullptr
         /\ \A j \in 1 .. (i - 1) : log[j].out # log[i].out /\ log[j].page # log[i].page
  /\ Len(log) \in {FillPoolSize, FillPoolSize + 1} =>
       /\ \A f \in FillFrames : bpi.pages_[f].pin_count_ = 1
       /\ \A i \in 1 .. FillPoolSize :
            bpi.pages_[log[i].page].page_id_ = log[i].out
  /\ Len(log) >= FillPoolSize + 1 => log[FillPoolSize + 1].page = nullptr
  /\ Len(log) >= FillPoolSize + 2 => log[FillPoolSize + 2].ok
  /\ Len(log) >= FillPoolSize + 3 =>
       /\ log[FillPoolSize + 3].page = log[1].page
       /\ \A i \in 1 .. FillPoolSize : log[i].out # log[FillPoolSize + 3].out
  /\ Len(log) = FillPoolSize + 3 =>
       /\ \A f \in FillFrames : bpi.pages_[f].pin_count_ = 1
       /\ log[1].out \notin DOMAIN bpi.page_table_

\* C11 as stated: ... then FetchPage of the first page succeeds, the frame
\* it returns holds the page's bytes from disk and is pinned, and the pool
\* is full again.
C11_FetchAfterRefillSucceeds ==
  /\ FillUpToRefill
  /\ Len(log) = FillPoolSize + 4 =>
       LET c == log[FillPoolSize + 4]
       IN /\ c.page # nullptr
          /\ bpi.pages_[c.page].page_id_ = log[1].out
          /\ bpi.pages_[c.page].pin_count_ = 1
          /\ bpi.free_list_ = <<>> /\ bpi.replacer_.frame_ids_ = <<>>

\* C11 as the code has it: ... then FetchPage of the first page returns
\* nullptr, because the other pages and the new one hold every frame pinned;
\* the page stays out of the page table, nothing is written and the pool is
\* still full.
C11_FetchAfterRefillFails ==
  /\ FillUpToRefill
  /\ Len(log) = FillPoolSize + 4 =>
       LET c == log[FillPoolSize + 4]
       IN /\ c.name = "FetchPage" /\ c.page_id = log[1].out
          /\ c.page = nullptr /\ c.writes = <<>>
          /\ log[1].out \notin DOMAIN bpi.page_table_
          /\ \A f \in FillFrames : bpi.pages_[f].pin_count_ = 1
          /\ bpi.free_list_ = <<>> /\ bpi.replacer_.frame_ids_ = <<>>
          /\ DOMAIN bpi.page_table_ =
               {log[i].out : i \in (2 .. FillPoolSize) \cup {FillPoolSize + 3}}

\* the client has made all its calls, the last one FetchPage of the page it
\* was given first, whose bytes it had written
C11_Witness ==
  /\ Len(log) = FillPoolSize + 4
  /\ log[FillPoolSize + 4].name = "FetchPage"
  /\ log[FillPoolSize + 4].page_id = log[1].out
  /\ log[FillPoolSize + 3].page # nullptr
  /\ \E f \in FillFrames : bpi.pages_[f].data_ # 0

\* ------------------------------------------- ParallelBufferPoolManager
\* the pool of MaxInstances instances of PoolSize frames, called by MaxThreads
\* threads. A call on an instance runs under that instance's latch_ from its
\* first statement to its return and is one step; NewPgImp of the pool holds
\* m_latch over several instance calls and is a step per statement.
MaxThreads == 2      \* threads that call the parallel pool
Threads == 1 .. MaxThreads

\* m_latch holds the id of the thread that owns it, NoThread when it is free
NoThread == 0

\* the NewPage calls the threads may begin, and the page ids they can reach
PoolMaxCalls == MaxInstances * PoolSize + 2
PoolMaxPageId == MaxInstances * (PoolSize + 2) - 1

\* the value m_start_index has after construction
InitialStartIndex == 0

ParallelBufferPoolManager(num_instances, pool_size) ==
  [m_instances |-> [i \in 0 .. (num_instances - 1) |->
                      BufferPoolManagerInstance(pool_size, num_instances, i)],
   m_start_index |-> InitialStartIndex,
   m_latch |-> NoThread]

\* a thread outside any call
IdleThread ==
  [pc |-> "idle", index |-> 0, seen |-> 0, page |-> nullptr,
   out |-> INVALID_PAGE_ID, tried |-> <<>>]

InitPool ==
  /\ pool = ParallelBufferPoolManager(MaxInstances, PoolSize)
  /\ thr = [t \in Threads |-> IdleThread]
  /\ disk = [p \in 0 .. PoolMaxPageId |-> 0]
  /\ log = <<>>
  /\ bpi = BufferPoolManagerInstance(0, 1, 0)
  /\ handles = [f \in {} |-> 0]
  /\ last = NoCall
  /\ NoReplacer

Instances == DOMAIN pool.m_instances
NumInstances == Cardinality(Instances)

\* GetBufferPoolManager: the index of the instance responsible for page_id
GetBufferPoolManager(p, page_id) == page_id % Cardinality(DOMAIN p.m_instances)

\* an instance with neither a free nor an evictable frame
InstanceExhausted(b) == b.free_list_ = <<>> /\ b.replacer_.frame_ids_ = <<>>

\* mutant: a lock_guard that does not wait for the owner of the latch
CanLock_Always(latch) == TRUE

\* std::lock_guard's constructor returns once the latch is free
CanLock(latch) == latch = NoThread

\* mutant: the round-robin index is written back as it was read
NextStartIndex_Stays(seen, n) == seen

\* the value NewPgImp stores to m_start_index
NextStartIndex(seen, n) == (seen + 1) % n

\* mutant: the scan stops one instance short
LoopContinues_OneShort(index, start, n) == index < start + n - 1

\* the condition of NewPgImp's for loop
LoopContinues(index, start, n) == index < start + n

\* in SpecPool the log holds the completed NewPage calls of the pool: the
\* page id and the frame each returned and the instance it asked last
NewPageCalls == Len(log)
InCall == {t \in Threads : thr[t].pc # "idle"}

\* a thread enters NewPgImp of the pool and comes to the lock_guard
PoolNewPageBegin(t) ==
  /\ thr[t].pc = "idle"
  /\ NewPageCalls + Cardinality(InCall) < PoolMaxCalls
  /\ thr' = [thr EXCEPT ![t].pc = "lock"]
  /\ UNCHANGED <<pool, disk, log, bpi, handles, last, lru>>

\* it takes m_latch and starts the loop at m_start_index
PoolNewPageLock(t) ==
  /\ thr[t].pc = "lock"
  /\ CanLock(pool.m_latch)
  /\ pool' = [pool EXCEPT !.m_latch = t]
  /\ thr' = [thr EXCEPT ![t].pc = "loop", ![t].index = pool.m_start_index]
  /\ UNCHANGED <<disk, log, bpi, handles, last, lru>>

\* one evaluation of the loop condition and, when it holds, one NewPage call
\* on the instance index % size; `tried` notes the instance, what it returned
\* and whether it was exhausted when called
PoolNewPageLoop(t) ==
  /\ thr[t].pc = "loop"
  /\ IF LoopContinues(thr[t].index, pool.m_start_index, NumInstances)
     THEN LET mod_index == thr[t].index % NumInstances
              b == pool.m_instances[mod_index]
              r == NewPgImp(b, disk)
              call == [instance |-> mod_index, page |-> r.page,
                       exhausted |-> InstanceExhausted(b)]
          IN /\ r.page # nullptr => r.out <= PoolMaxPageId
             /\ pool' = [pool EXCEPT !.m_instances[mod_index] = r.b]
             /\ disk' = r.disk
             /\ thr' = [thr EXCEPT ![t].tried = Append(@, call),
                                   ![t].page = r.page,
                                   ![t].out = r.out,
                                   ![t].index = IF r.page # nullptr THEN @ ELSE @ + 1,
                                   ![t].pc = IF r.page # nullptr THEN "read" ELSE "loop"]
     ELSE /\ thr' = [thr EXCEPT ![t].pc = "read"]
          /\ UNCHANGED <<pool, disk>>
  /\ UNCHANGED <<log, bpi, handles, last, lru>>

\* m_start_index = (m_start_index + 1) % size: the read
PoolNewPageRead(t) ==
  /\ thr[t].pc = "read"
  /\ thr' = [thr EXCEPT ![t].pc = "write", ![t].seen = pool.m_start_index]
  /\ UNCHANGED <<pool, disk, log, bpi, handles, last, lru>>

\* and the write
PoolNewPageWrite(t) ==
  /\ thr[t].pc = "write"
  /\ pool' = [pool EXCEPT !.m_start_index = NextStartIndex(thr[t].seen, NumInstances)]
  /\ thr' = [thr EXCEPT ![t].pc = "return"]
  /\ UNCHANGED <<disk, log, bpi, handles, last, lru>>

\* the return: the lock_guard releases m_latch and the call is complete
PoolNewPageReturn(t) ==
  /\ thr[t].pc = "return"
  /\ pool' = [pool EXCEPT !.m_latch = NoThread]
  /\ log' = Append(log, [name |-> "NewPage", page_id |-> thr[t].out,
                         page |-> thr[t].page,
                         instance |-> thr[t].tried[Len(thr[t].tried)].instance])
  /\ thr' = [thr EXCEPT ![t] = IdleThread]
  /\ UNCHANGED <<disk, bpi, handles, last, lru>>

\* UnpinPgImp of the pool, by a thread outside NewPgImp: the call goes to the
\* instance responsible for the page
PoolUnpinPage(t) ==
  /\ thr[t].pc = "idle"
  /\ \E page_id \in 0 .. PoolMaxPageId, is_dirty \in BOOLEAN :
       LET i == GetBufferPoolManager(pool, page_id)
           r == UnpinPgImp(pool.m_instances[i], disk, page_id, is_dirty)
       IN /\ pool' = [pool EXCEPT !.m_instances[i] = r.b]
          /\ disk' = r.disk
  /\ UNCHANGED <<thr, log, bpi, handles, last, lru>>

\* DeletePgImp of the pool, by a thread outside NewPgImp
PoolDeletePage(t) ==
  /\ thr[t].pc = "idle"
  /\ \E page_id \in 0 .. PoolMaxPageId :
       LET i == GetBufferPoolManager(pool, page_id)
           r == DeletePgImp(pool.m_instances[i], disk, page_id)
       IN /\ pool' = [pool EXCEPT !.m_instances[i] = r.b]
          /\ disk' = r.disk
  /\ UNCHANGED <<thr, log, bpi, handles, last, lru>>

NextPool ==
  \E t \in Threads :
    \/ PoolNewPageBegin(t)
    \/ PoolNewPageLock(t)
    \/ PoolNewPageLoop(t)
    \/ PoolNewPageRead(t)
    \/ PoolNewPageWrite(t)
    \/ PoolNewPageReturn(t)
    \/ PoolUnpinPage(t)
    \/ PoolDeletePage(t)

SpecPool == InitPool /\ [][NextPool]_vars

C18_ScanFromStartIndex ==
  \A t \in Threads :
    thr[t].pc \in {"loop", "read", "write", "return"} =>
      LET tr == thr[t].tried
          n == NumInstances
          first == IF thr[t].pc = "return"
                   THEN (pool.m_start_index + n - 1) % n
                   ELSE pool.m_start_index
      IN /\ Len(tr) <= n
         /\ \A k \in 1 .. Len(tr) :
              /\ tr[k].instance = (first + k - 1) % n
              /\ (tr[k].page = nullptr) <=> tr[k].exhausted
              /\ k < Len(tr) => tr[k].page = nullptr
         /\ thr[t].pc = "loop" => \A k \in 1 .. Len(tr) : tr[k].page = nullptr
         /\ thr[t].pc # "loop" =>
              /\ Len(tr) >= 1
              /\ thr[t].page = tr[Len(tr)].page
              /\ (thr[t].page = nullptr) <=>
                   (Len(tr) = n /\ \A k \in 1 .. n : tr[k].exhausted)

\* a call found the instance at m_start_index exhausted and got its page from
\* the next one
C18_Witness ==
  \E t \in Threads :
    /\ thr[t].pc = "return"
    /\ Len(thr[t].tried) = 2
    /\ thr[t].tried[1].exhausted /\ thr[t].tried[1].page = nullptr
    /\ ~thr[t].tried[2].exhausted
    /\ thr[t].page # nullptr

\* ----------------------------------------------------------------- C21
\* what C21 says of a call that needs a frame while the free list is not
\* empty: it returns the front frame of the free list and pops it, asks the
\* replacer for nothing, writes nothing, leaves the disk and every other
\* frame as they were, and every page that was in the page table is still
\* in it
TakesFreeFrame(r) ==
  /\ r.page = Head(free_list_)
  /\ r.b.free_list_ = Tail(free_list_)
  /\ r.b.replacer_ = bpi.replacer_
  /\ r.writes = <<>>
  /\ r.disk = disk
  /\ \A g \in Frames \ {r.page} : r.b.pages_[g] = pages_[g]
  /\ DOMAIN page_table_ \subseteq DOMAIN r.b.page_table_
  /\ r.b.pages_[r.page].pin_count_ = 1

\* C21: NewPage and a FetchPage miss take the front frame of the free list
\* whenever it is not empty, and ask the replacer only when it is empty; no
\* resident page is removed from the page table or written back while a
\* free frame exists.
C21_FreeListFirst ==
  /\ free_list_ # <<>> =>
       /\ TakesFreeFrame(NewPgImp(bpi, disk))
       /\ \A p \in PageIds :
            ~Resident(p) => TakesFreeFrame(FetchPgImp(bpi, disk, p))
  /\ (free_list_ = <<>> /\ frame_ids_ # <<>>) =>
       /\ NewPgImp(bpi, disk).page = Head(frame_ids_)
       /\ \A p \in PageIds :
            ~Resident(p) => FetchPgImp(bpi, disk, p).page = Head(frame_ids_)

\* a free frame exists while a resident page, unpinned dirty with written
\* bytes, is the replacer's next victim
C21_Witness ==
  /\ last.name = "UnpinPage" /\ last.ok /\ last.is_dirty
  /\ free_list_ # <<>>
  /\ frame_ids_ # <<>>
  /\ pages_[Head(frame_ids_)].is_dirty_
  /\ pages_[Head(frame_ids_)].data_ # 0
  /\ Resident(pages_[Head(frame_ids_)].page_id_)

\* ----------------------------------------------------------------- C23
\* the NewPage calls of the pool that returned a page, in the order in which
\* the instances handed out the ids: the completed calls, then the call that
\* holds m_latch and has its page already
Allocations ==
  LET done == SelectSeq(log, LAMBDA c : c.page # nullptr)
      now == {t \in Threads : /\ thr[t].pc \in {"read", "write", "return"}
                              /\ thr[t].page # nullptr}
  IN IF now = {} THEN done
     ELSE LET t == CHOOSE u \in now : TRUE
          IN Append(done, [name |-> "NewPage", page_id |-> thr[t].out,
                           page |-> thr[t].page,
                           instance |-> thr[t].tried[Len(thr[t].tried)].instance])

\* C23: no two NewPage calls of the pool that returned a page returned the
\* same page id, whatever was unpinned, evicted or deleted in between and
\* whichever threads called, and the ids an instance returned are strictly
\* increasing.
C23_PageIdsNeverReused ==
  \A j \in 1 .. Len(Allocations) :
    \A i \in 1 .. (j - 1) :
      /\ Allocations[i].page_id # Allocations[j].page_id
      /\ Allocations[i].instance = Allocations[j].instance
           => Allocations[i].page_id < Allocations[j].page_id

\* an instance has handed out a second id for a frame whose first page was
\* deleted or evicted, while another thread is inside NewPage as well
C23_Witness ==
  /\ Len(Allocations) > MaxInstances * PoolSize
  /\ \E i \in 1 .. Len(log) :
       /\ log[i].page # nullptr
       /\ \A k \in Instances :
            log[i].page_id \notin DOMAIN pool.m_instances[k].page_table_
  /\ \E t, u \in Threads :
       /\ thr[t].pc = "return" /\ thr[t].page # nullptr
       /\ thr[u].pc = "lock"

\* --------------------------------------------- the latches of the pool
\* the pool as in SpecPool, with every latch a step: m_latch of the pool,
\* latch_ of each instance, taken by every public call of the instance at
\* its first statement and released at its return, and latch_ of each
\* instance's replacer, taken by Victim, Pin and Unpin for the length of the
\* call. The statements of an instance call between its lock_guard and its
\* return are seen by no other thread; their effect is applied at the return.
Latch(kind, i) == [kind |-> kind, instance |-> i]
PoolLatch == Latch("pool", 0)
InstanceLatch(i) == Latch("instance", i)
ReplacerLatch(i) == Latch("replacer", i)

\* mutant: a lock_guard whose destructor leaves the latch locked
Release_KeepsLatch(held) == held

\* the destructor of the lock_guard taken last releases its latch
Release(held) == SubSeq(held, 1, Len(held) - 1)

\* the thread that owns latch l, NoThread when it is free; a thread's `held`
\* lists the latches it owns in the order it took them
Owner(l) ==
  IF \E t \in Threads : l \in Range(thr[t].held)
  THEN CHOOSE t \in Threads : l \in Range(thr[t].held)
  ELSE NoThread

\* the frames of each instance, the page ids the threads pass to the pool,
\* and the value of next_page_id_ up to which a thread begins a NewPage call
LatchPoolSize == PoolSize - 1
LatchPageIds == 0 .. MaxPageId
LatchMaxPageId == MaxPageId

IdleLatchThread ==
  [pc |-> "idle", op |-> "none", page_id |-> INVALID_PAGE_ID, is_dirty |-> FALSE,
   index |-> 0, seen |-> 0, page |-> nullptr, calls |-> 0, held |-> <<>>]

InitLatch ==
  /\ pool = ParallelBufferPoolManager(MaxInstances, LatchPoolSize)
  /\ thr = [t \in Threads |-> IdleLatchThread]
  /\ disk = [p \in 0 .. PoolMaxPageId |-> 0]
  /\ log = <<>>
  /\ bpi = BufferPoolManagerInstance(0, 1, 0)
  /\ handles = [f \in {} |-> 0]
  /\ last = NoCall
  /\ NoReplacer

\* the replacer calls an instance call makes, given the instance as the
\* call finds it: NewPgImp calls Victim when the free list is empty;
\* FetchPgImp calls Pin on a hit, Pin after taking a free frame, Victim and
\* then Pin when there is a victim, Victim alone when there is none;
\* UnpinPgImp calls Unpin when the pin count reaches zero; DeletePgImp calls
\* Pin when it deletes; FlushPgImp and FlushAllPgsImp call none
ReplacerCalls(op, b, page_id) ==
  CASE op = "NewPage" -> IF b.free_list_ # <<>> THEN 0 ELSE 1
    [] op = "FetchPage" ->
         IF page_id \in DOMAIN b.page_table_ \/ b.free_list_ # <<>> THEN 1
         ELSE IF Victim(b.replacer_).ok THEN 2 ELSE 1
    [] op = "UnpinPage" ->
         IF /\ page_id \in DOMAIN b.page_table_
            /\ b.pages_[b.page_table_[page_id]].pin_count_ > 0
            /\ b.pages_[b.page_table_[page_id]].pin_count_ - 1 <= 0
         THEN 1 ELSE 0
    [] op = "DeletePage" ->
         IF /\ page_id \in DOMAIN b.page_table_
            /\ b.pages_[b.page_table_[page_id]].pin_count_ = 0
         THEN 1 ELSE 0
    [] OTHER -> 0

\* the instance call of op, as the operators of the instance define it;
\* order is the order in which FlushAllPgsImp walks the page table
InstanceCall(op, b, dsk, page_id, is_dirty, order) ==
  CASE op = "NewPage" -> NewPgImp(b, dsk)
    [] op = "FetchPage" -> FetchPgImp(b, dsk, page_id)
    [] op = "UnpinPage" -> UnpinPgImp(b, dsk, page_id, is_dirty)
    [] op = "DeletePage" -> DeletePgImp(b, dsk, page_id)
    [] op = "FlushPage" -> FlushPgImp(b, dsk, page_id)
    [] op = "FlushAllPages" -> FlushAllPgsImp(b, dsk, order)

\* the instance thread t is calling or about to call
CalledInstance(t) == thr[t].index % NumInstances

\* a thread enters NewPgImp of the pool and comes to its lock_guard
LatchNewPageBegin(t) ==
  /\ thr[t].pc = "idle"
  /\ \A i \in Instances : pool.m_instances[i].next_page_id_ <= LatchMaxPageId
  /\ thr' = [thr EXCEPT ![t].pc = "lock", ![t].op = "NewPage"]
  /\ UNCHANGED <<pool, disk, log, bpi, handles, last, lru>>

\* a thread enters FetchPgImp, UnpinPgImp, DeletePgImp or FlushPgImp of the
\* pool: GetBufferPoolManager names the instance, whose call comes to its
\* lock_guard. The pages are unpinned clean: the dirty bit decides disk
\* writes, which take no latch
LatchRoutedBegin(t) ==
  /\ thr[t].pc = "idle"
  /\ \E op \in {"FetchPage", "UnpinPage", "DeletePage", "FlushPage"},
        page_id \in LatchPageIds, is_dirty \in {FALSE} :
       LET i == GetBufferPoolManager(pool, page_id)
           b == pool.m_instances[i]
       IN /\ (op = "FetchPage" /\ page_id \in DOMAIN b.page_table_)
               => b.pages_[b.page_table_[page_id]].pin_count_ < MaxPin
          /\ thr' = [thr EXCEPT ![t].pc = "latch", ![t].op = op,
                                ![t].page_id = page_id, ![t].is_dirty = is_dirty,
                                ![t].index = i]
  /\ UNCHANGED <<pool, disk, log, bpi, handles, last, lru>>

\* a thread enters FlushAllPgsImp of the pool, which starts at instance 0
LatchFlushAllBegin(t) ==
  /\ thr[t].pc = "idle"
  /\ thr' = [thr EXCEPT ![t].pc = "latch", ![t].op = "FlushAllPages", ![t].index = 0]
  /\ UNCHANGED <<pool, disk, log, bpi, handles, last, lru>>

\* NewPgImp of the pool takes m_latch and starts its loop at m_start_index
LatchPoolLock(t) ==
  /\ thr[t].pc = "lock"
  /\ CanLock(Owner(PoolLatch))
  /\ pool' = [pool EXCEPT !.m_latch = t]
  /\ thr' = [thr EXCEPT ![t].pc = "loop", ![t].index = pool.m_start_index,
                        ![t].held = Append(@, PoolLatch)]
  /\ UNCHANGED <<disk, log, bpi, handles, last, lru>>

\* the loop condition: the next instance is called, or the loop is over
LatchPoolLoop(t) ==
  /\ thr[t].pc = "loop"
  /\ thr' = [thr EXCEPT ![t].pc =
               IF LoopContinues(thr[t].index, pool.m_start_index, NumInstances)
               THEN "latch" ELSE "read"]
  /\ UNCHANGED <<pool, disk, log, bpi, handles, last, lru>>

\* the instance call takes latch_ of the instance; from here to its return
\* the instance is as the call found it, so the replacer calls it will make
\* are known
LatchInstanceLock(t) ==
  /\ thr[t].pc = "latch"
  /\ CanLock(Owner(InstanceLatch(CalledInstance(t))))
  /\ LET calls == ReplacerCalls(thr[t].op, pool.m_instances[CalledInstance(t)],
                                thr[t].page_id)
     IN thr' = [thr EXCEPT ![t].held = Append(@, InstanceLatch(CalledInstance(t))),
                           ![t].calls = calls,
                           ![t].pc = IF calls > 0 THEN "replacer" ELSE "unlatch"]
  /\ UNCHANGED <<pool, disk, log, bpi, handles, last, lru>>

\* Victim, Pin or Unpin takes latch_ of the instance's replacer
LatchReplacerLock(t) ==
  /\ thr[t].pc = "replacer"
  /\ CanLock(Owner(ReplacerLatch(CalledInstance(t))))
  /\ thr' = [thr EXCEPT ![t].held = Append(@, ReplacerLatch(CalledInstance(t))),
                        ![t].pc = "replaced"]
  /\ UNCHANGED <<pool, disk, log, bpi, handles, last, lru>>

\* and releases it at its return
LatchReplacerUnlock(t) ==
  /\ thr[t].pc = "replaced"
  /\ thr' = [thr EXCEPT ![t].held = Release(@),
                        ![t].calls = @ - 1,
                        ![t].pc = IF thr[t].calls > 1 THEN "replacer" ELSE "unlatch"]
  /\ UNCHANGED <<pool, disk, log, bpi, handles, last, lru>>

\* the instance call returns and releases latch_ of the instance. NewPgImp
\* of the pool goes on to the update of m_start_index when it has a page and
\* to the next instance when it has none; FlushAllPgsImp of the pool goes on
\* to the next instance; the other calls of the pool return
LatchInstanceUnlock(t) ==
  /\ thr[t].pc = "unlatch"
  /\ LET i == CalledInstance(t)
         b == pool.m_instances[i]
     IN \E order \in Perms(IF thr[t].op = "FlushAllPages"
                           THEN DOMAIN b.page_table_ ELSE {}) :
          LET r == InstanceCall(thr[t].op, b, disk, thr[t].page_id,
                                thr[t].is_dirty, order)
              released == Release(thr[t].held)
          IN /\ pool' = [pool EXCEPT !.m_instances[i] = r.b]
             /\ disk' = r.disk
             /\ thr' =
                  CASE thr[t].op = "NewPage" ->
                         [thr EXCEPT ![t].held = released,
                                     ![t].page = r.page,
                                     ![t].index = IF r.page # nullptr THEN @ ELSE @ + 1,
                                     ![t].pc = IF r.page # nullptr THEN "read" ELSE "loop"]
                    [] thr[t].op = "FlushAllPages" /\ i + 1 < NumInstances ->
                         [thr EXCEPT ![t].held = released,
                                     ![t].index = i + 1,
                                     ![t].pc = "latch"]
                    [] OTHER -> [thr EXCEPT ![t] = [IdleLatchThread EXCEPT !.held = released]]
  /\ UNCHANGED <<log, bpi, handles, last, lru>>

\* m_start_index = (m_start_index + 1) % size: the read
LatchPoolRead(t) ==
  /\ thr[t].pc = "read"
  /\ thr' = [thr EXCEPT ![t].pc = "write", ![t].seen = pool.m_start_index]
  /\ UNCHANGED <<pool, disk, log, bpi, handles, last, lru>>

\* and the write
LatchPoolWrite(t) ==
  /\ thr[t].pc = "write"
  /\ pool' = [pool EXCEPT !.m_start_index = NextStartIndex(thr[t].seen, NumInstances)]
  /\ thr' = [thr EXCEPT ![t].pc = "return"]
  /\ UNCHANGED <<disk, log, bpi, handles, last, lru>>

\* NewPgImp of the pool returns and releases m_latch
LatchPoolUnlock(t) ==
  /\ thr[t].pc = "return"
  /\ pool' = [pool EXCEPT !.m_latch = NoThread]
  /\ thr' = [thr EXCEPT ![t] = [IdleLatchThread EXCEPT !.held = Release(thr[t].held)]]
  /\ UNCHANGED <<disk, log, bpi, handles, last, lru>>

\* a call begins
LatchBegin(t) ==
  \/ LatchNewPageBegin(t)
  \/ LatchRoutedBegin(t)
  \/ LatchFlushAllBegin(t)

\* a step of a call that has begun
LatchStep(t) ==
  \/ LatchPoolLock(t)
  \/ LatchPoolLoop(t)
  \/ LatchInstanceLock(t)
  \/ LatchReplacerLock(t)
  \/ LatchReplacerUnlock(t)
  \/ LatchInstanceUnlock(t)
  \/ LatchPoolRead(t)
  \/ LatchPoolWrite(t)
  \/ LatchPoolUnlock(t)

NextLatch == \E t \in Threads : LatchBegin(t) \/ LatchStep(t)

\* the scheduler is fair: a thread that can take a step of its call takes
\* one, and a thread that waits for a latch that is free again and again
\* gets it
SpecLatch ==
  /\ InitLatch
  /\ [][NextLatch]_vars
  /\ \A t \in Threads : WF_vars(LatchStep(t))
  /\ \A t \in Threads :
       SF_vars(LatchPoolLock(t) \/ LatchInstanceLock(t) \/ LatchReplacerLock(t))

\* ----------------------------------------------------------------- C22
LatchRank(l) ==
  CASE l.kind = "pool" -> 0
    [] l.kind = "instance" -> 1
    [] l.kind = "replacer" -> 2

\* every thread took the latches it owns in the order pool, instance,
\* replacer: it owns at most one instance latch, and a replacer latch only
\* on top of the latch of the same instance; no latch has two owners; a
\* thread outside a call owns none
LatchOrder ==
  /\ \A t \in Threads :
       LET held == thr[t].held
       IN /\ \A i, j \in 1 .. Len(held) :
               i < j => LatchRank(held[i]) < LatchRank(held[j])
          /\ \A j \in 1 .. Len(held) :
               held[j].kind = "replacer" =>
                 j > 1 /\ held[j - 1] = InstanceLatch(held[j].instance)
          /\ thr[t].pc = "idle" => held = <<>>
          /\ (PoolLatch \in Range(held)) <=> (pool.m_latch = t)
  /\ \A t, u \in Threads :
       t # u => Range(thr[t].held) \cap Range(thr[u].held) = {}

\* the latch thread t is waiting for, if it waits
Wanted(t) ==
  CASE thr[t].pc = "lock" -> {PoolLatch}
    [] thr[t].pc = "latch" -> {InstanceLatch(CalledInstance(t))}
    [] thr[t].pc = "replacer" -> {ReplacerLatch(CalledInstance(t))}
    [] OTHER -> {}

\* t cannot go on before u releases a latch
WaitsFor(t, u) == t # u /\ Wanted(t) \cap Range(thr[u].held) # {}

\* no thread waits for a latch of its own, no two threads wait for each
\* other, and whenever a call is in progress some thread can take a step of
\* its call
NoDeadlock ==
  /\ \A t \in Threads : Wanted(t) \cap Range(thr[t].held) = {}
  /\ \A t, u \in Threads : ~(WaitsFor(t, u) /\ WaitsFor(u, t))
  /\ (\E t \in Threads : thr[t].pc # "idle") =>
       \E t \in Threads : thr[t].pc # "idle" /\ \A u \in Threads : ~WaitsFor(t, u)

====
